---- MODULE Spec2Model ----
(***************************************************************************)
(* Model of iree/compiler/Translation/SPIRV/EmbeddedKernels.cpp:           *)
(* the embedded kernel table lookup (readEmbeddedKernelCode), the matmul   *)
(* executable assembler (buildMatMulExecutable) and the scan over an       *)
(* executable's inner module (tryEmbeddedKernelRewrite).                   *)
(***************************************************************************)
EXTENDS Integers, Sequences, FiniteSets, TLC

VARIABLES table, unit, out_def, last, lookup

vars == <<table, unit, out_def, last, lookup>>

(***************************************************************************)
(* Bounds of the model.                                                    *)
(***************************************************************************)
\* funcs + blocks + operations of the inner module under translation
MaxUnitSize == 5
\* entries of an embedded kernel table in the lookup specification
MaxEntries == 2

(***************************************************************************)
(* Program constants.                                                      *)
(***************************************************************************)
kMatrixM == 100
kMatrixK == 101
kMatrixN == 102
VK_DESCRIPTOR_TYPE_STORAGE_BUFFER == 7
\* 0x00000020
VK_SHADER_STAGE_COMPUTE_BIT == 32
\* what ShapedType::getDimSize answers for a dynamic (?) dimension
kDynamicSize == -1

(***************************************************************************)
(* C strings: a name is the sequence of its characters before the NUL.     *)
(***************************************************************************)
MatmulSpv == <<"m", "a", "t", "m", "u", "l", ".", "s", "p", "v">>

\* std::strncmp-like comparison over the length of b: the mutant of StrCmp
RECURSIVE StrCmpPrefix(_, _)
StrCmpPrefix(a, b) ==
    IF b = <<>> THEN 0
    ELSE IF a = <<>> THEN -1
    ELSE IF Head(a) # Head(b) THEN 1
    ELSE StrCmpPrefix(Tail(a), Tail(b))

\* std::strcmp: 0 exactly when both strings end together with equal characters
RECURSIVE StrCmp(_, _)
StrCmp(a, b) ==
    IF a = <<>> /\ b = <<>> THEN 0
    ELSE IF a = <<>> THEN -1
    ELSE IF b = <<>> THEN 1
    ELSE IF Head(a) # Head(b) THEN 1
    ELSE StrCmp(Tail(a), Tail(b))

(***************************************************************************)
(* readEmbeddedKernelCode.  An entry of the table is                       *)
(* [name, data (bytes), size]; a uint32_t word of the result is the four   *)
(* bytes memcpy stores in it.                                              *)
(***************************************************************************)
\* code.resize(size / 4); memcpy(code.data(), data, size)
CopyWords(entry) ==
    [i \in 1..(entry.size \div 4) |->
        <<entry.data[4 * i - 3], entry.data[4 * i - 2],
          entry.data[4 * i - 1], entry.data[4 * i]>>]

RECURSIVE ScanToc(_, _, _)
ScanToc(fileToc, kernelName, i) ==
    IF i > Len(fileToc) THEN <<>>
    ELSE IF StrCmp(fileToc[i].name, kernelName) = 0 THEN CopyWords(fileToc[i])
    ELSE ScanToc(fileToc, kernelName, i + 1)

readEmbeddedKernelCode(kernelName, fileToc) == ScanToc(fileToc, kernelName, 1)

(***************************************************************************)
(* uint32_t values that come from an int64_t: the two 16-bit halves of the *)
(* low 32 bits (two's complement truncation).                              *)
(***************************************************************************)
ToUint32(x) == [hi |-> (x \div 65536) % 65536, lo |-> x % 65536]

(***************************************************************************)
(* Types of operands: a ShapedType is the sequence of its dimension sizes. *)
(***************************************************************************)
getRank(type) == Len(type)

\* getDimSize(idx), idx counted from 0 as in the source
getDimSize(type, idx) == type[idx + 1]

(***************************************************************************)
(* The executable definition (iree::SpirVExecutableDefT).  A unique_ptr    *)
(* field is <<>> when null and <<object>> when it owns an object.          *)
(***************************************************************************)
EmptyDef ==
    [tag |-> "", entry_points |-> <<>>, code |-> <<>>,
     pipeline_layout |-> <<>>, specialization_info |-> <<>>]

\* a storage buffer binding of another descriptor type: the mutant
addDescriptorSetLayoutBindingUniform(binding, dsl) ==
    [dsl EXCEPT !.bindings = Append(@,
        [binding |-> binding, descriptor_count |-> 1,
         descriptor_type |-> VK_DESCRIPTOR_TYPE_STORAGE_BUFFER - 1,
         stage_flags |-> VK_SHADER_STAGE_COMPUTE_BIT])]

addDescriptorSetLayoutBinding(binding, dsl) ==
    [dsl EXCEPT !.bindings = Append(@,
        [binding |-> binding, descriptor_count |-> 1,
         descriptor_type |-> VK_DESCRIPTOR_TYPE_STORAGE_BUFFER,
         stage_flags |-> VK_SHADER_STAGE_COMPUTE_BIT])]

addSpecializationMapEntry(constant_id, value, specializationInfoDef) ==
    [specializationInfoDef EXCEPT !.map_entries = Append(@,
        [constant_id |-> constant_id, uint32_value |-> value])]

\* the mutants of the shape reads: the unbatched indices whatever the rank,
\* and k read from the row dimension
MatMulMUnbatchedOnly(arg0) == ToUint32(getDimSize(arg0, 0))

MatMulKFromRows(arg0) ==
    ToUint32(IF getRank(arg0) = 3 THEN getDimSize(arg0, 2) ELSE getDimSize(arg0, 0))

\* uint32_t m, k, n
MatMulM(arg0) ==
    ToUint32(IF getRank(arg0) = 3 THEN getDimSize(arg0, 1) ELSE getDimSize(arg0, 0))

MatMulK(arg0) ==
    ToUint32(IF getRank(arg0) = 3 THEN getDimSize(arg0, 2) ELSE getDimSize(arg0, 1))

MatMulN(arg1) ==
    ToUint32(IF getRank(arg1) = 3 THEN getDimSize(arg1, 2) ELSE getDimSize(arg1, 1))

MatMulPipelineLayout ==
    LET dsl0 == [bindings |-> <<>>]
        dsl1 == addDescriptorSetLayoutBinding(0, dsl0)
        dsl2 == addDescriptorSetLayoutBinding(1, dsl1)
        dsl3 == addDescriptorSetLayoutBinding(2, dsl2)
    IN  [buffer_binding_set |-> 0, descriptor_set_layouts |-> <<dsl3>>]

MatMulSpecializationInfo(info0, arg0, arg1) ==
    LET info1 == addSpecializationMapEntry(kMatrixM, MatMulM(arg0), info0)
        info2 == addSpecializationMapEntry(kMatrixK, MatMulK(arg0), info1)
    IN  addSpecializationMapEntry(kMatrixN, MatMulN(arg1), info2)

\* the entries are added to the specialization info out_def already owns:
\* the mutant of buildMatMulExecutable
buildMatMulExecutableAppending(dotOp, def, fileToc) ==
    LET arg0 == dotOp.operands[1]
        arg1 == dotOp.operands[2]
        info0 == IF def.specialization_info = <<>> THEN [map_entries |-> <<>>]
                 ELSE def.specialization_info[1]
    IN  [result |-> TRUE,
         out_def |->
            [tag |-> "__matmul__",
             entry_points |-> <<"main">>,
             code |-> readEmbeddedKernelCode(MatmulSpv, fileToc),
             pipeline_layout |-> <<MatMulPipelineLayout>>,
             specialization_info |-> <<MatMulSpecializationInfo(info0, arg0, arg1)>>]]

\* result is the LogicalResult (TRUE for success()), out_def the definition
\* as the call leaves it
buildMatMulExecutable(dotOp, def, fileToc) ==
    LET arg0 == dotOp.operands[1]
        arg1 == dotOp.operands[2]
    IN  [result |-> TRUE,
         out_def |->
            [tag |-> "__matmul__",
             entry_points |-> <<"main">>,
             code |-> readEmbeddedKernelCode(MatmulSpv, fileToc),
             pipeline_layout |-> <<MatMulPipelineLayout>>,
             specialization_info |->
                <<MatMulSpecializationInfo([map_entries |-> <<>>], arg0, arg1)>>]]

(***************************************************************************)
(* tryEmbeddedKernelRewrite.  The unit is the sequence of the inner        *)
(* module's functions, a function the sequence of its blocks, a block the  *)
(* sequence of its operations.  The outcome of a call:                     *)
(*   ret      the bool returned                                            *)
(*   out_def  the definition as the call leaves it                         *)
(*   emitted  the diagnostics emitted on the executable                    *)
(*   visited  how many operations the loops reached                        *)
(*   acted    the places <<func, block, op>> whose operation was acted on  *)
(***************************************************************************)
isaConvOpNever(op) == FALSE

isaConvOp(op) == op.kind = "xla_hlo.conv"

isaDotOp(op) == op.kind = "xla_hlo.dot"

\* the loops end and a match is reported: the mutant of NoMatch
NoMatchAsSuccess(def, visited) ==
    [ret |-> TRUE, out_def |-> def, emitted |-> <<>>,
     visited |-> visited, acted |-> <<>>]

\* return false after the loops
NoMatch(def, visited) ==
    [ret |-> FALSE, out_def |-> def, emitted |-> <<>>,
     visited |-> visited, acted |-> <<>>]

ConvFound(def, visited, place) ==
    [ret |-> FALSE, out_def |-> def,
     emitted |-> <<"Conv not yet implemented">>,
     visited |-> visited, acted |-> <<place>>]

DotFound(op, def, fileToc, visited, place) ==
    LET built == buildMatMulExecutable(op, def, fileToc)
    IN  IF ~built.result
        THEN [ret |-> FALSE, out_def |-> built.out_def,
              emitted |-> <<"Failed to splat in the matmul kernel">>,
              visited |-> visited, acted |-> <<place>>]
        ELSE [ret |-> TRUE, out_def |-> built.out_def, emitted |-> <<>>,
              visited |-> visited, acted |-> <<place>>]

\* a convolution is passed over and the scan goes on: the mutant of ScanOps
RECURSIVE ScanOpsSkippingConv(_, _, _, _, _, _, _)
ScanOpsSkippingConv(module, def, fileToc, f, b, o, visited) ==
    IF f > Len(module) THEN NoMatch(def, visited)
    ELSE IF b > Len(module[f])
    THEN ScanOpsSkippingConv(module, def, fileToc, f + 1, 1, 1, visited)
    ELSE IF o > Len(module[f][b])
    THEN ScanOpsSkippingConv(module, def, fileToc, f, b + 1, 1, visited)
    ELSE IF isaDotOp(module[f][b][o])
    THEN DotFound(module[f][b][o], def, fileToc, visited + 1, <<f, b, o>>)
    ELSE ScanOpsSkippingConv(module, def, fileToc, f, b, o + 1, visited + 1)

\* the three nested loops, at function f, block b, operation o
RECURSIVE ScanOps(_, _, _, _, _, _, _)
ScanOps(module, def, fileToc, f, b, o, visited) ==
    IF f > Len(module) THEN NoMatch(def, visited)
    ELSE IF b > Len(module[f])
    THEN ScanOps(module, def, fileToc, f + 1, 1, 1, visited)
    ELSE IF o > Len(module[f][b])
    THEN ScanOps(module, def, fileToc, f, b + 1, 1, visited)
    ELSE IF isaConvOp(module[f][b][o])
    THEN ConvFound(def, visited + 1, <<f, b, o>>)
    ELSE IF isaDotOp(module[f][b][o])
    THEN DotFound(module[f][b][o], def, fileToc, visited + 1, <<f, b, o>>)
    ELSE ScanOps(module, def, fileToc, f, b, o + 1, visited + 1)

tryEmbeddedKernelRewrite(module, def, fileToc) ==
    ScanOps(module, def, fileToc, 1, 1, 1, 0)

(***************************************************************************)
(* The operations an inner module is built from.  A dot carries the types  *)
(* of its two operands, unbatched [m,k] x [k,n] or batched                 *)
(* [b,m,k] x [b,k,n]; m may be dynamic.                                    *)
(***************************************************************************)
OtherOp == [kind |-> "std.return", operands |-> <<>>]

ConvOp == [kind |-> "xla_hlo.conv", operands |-> <<>>]

RowSizes == {2, kDynamicSize}

DotOps ==
    {[kind |-> "xla_hlo.dot", operands |-> <<<<m, 3>>, <<3, 5>>>>] : m \in RowSizes}
    \cup
    {[kind |-> "xla_hlo.dot", operands |-> <<<<7, m, 3>>, <<7, 3, 5>>>>] : m \in RowSizes}

Ops == {OtherOp, ConvOp} \cup DotOps

(***************************************************************************)
(* The embedded kernel tables (spirv_kernels::Kernels_create()).           *)
(***************************************************************************)
Data4 == <<1, 2, 3, 4>>

Data8 == <<5, 6, 7, 8, 9, 10, 11, 12>>

Entry(name, data) == [name |-> name, data |-> data, size |-> Len(data)]

\* the tables the rewrite runs against: the kernel embedded, embedded after
\* another one, and not embedded
EmbeddedTables ==
    {<<Entry(MatmulSpv, Data8)>>,
     <<Entry(SubSeq(MatmulSpv, 1, 6), Data4), Entry(MatmulSpv, Data8)>>,
     <<>>}

\* "matmul.spv", a prefix, a suffix and a case variant of it
EntryNames ==
    {MatmulSpv, SubSeq(MatmulSpv, 1, 6), SubSeq(MatmulSpv, 7, 10),
     <<"M">> \o SubSeq(MatmulSpv, 2, 10)}

Entries == {Entry(n, d) : n \in EntryNames, d \in {<<>>, Data4, Data8}}

RECURSIVE TablesOfLen(_)
TablesOfLen(n) ==
    IF n = 0 THEN {<<>>}
    ELSE {Append(t, e) : t \in TablesOfLen(n - 1), e \in Entries}

AllTables == UNION {TablesOfLen(n) : n \in 0..MaxEntries}

(***************************************************************************)
(* State.                                                                  *)
(*   table    the embedded kernel table                                    *)
(*   unit     the inner module of the executable being translated          *)
(*   out_def  the definition object the caller passes                      *)
(*   last     the latest call of tryEmbeddedKernelRewrite on this unit:    *)
(*            out_def before (pre) and after (post), its outcome, and,     *)
(*            when the call before it was on the same unit (repeat), that  *)
(*            call's ret and post                                          *)
(*   lookup   the latest readEmbeddedKernelCode call                       *)
(***************************************************************************)
NoCall ==
    [valid |-> FALSE, pre |-> EmptyDef, post |-> EmptyDef, ret |-> FALSE,
     emitted |-> <<>>, visited |-> 0, acted |-> <<>>,
     repeat |-> FALSE, prev_ret |-> FALSE, prev_post |-> EmptyDef]

NoLookup == [valid |-> FALSE, name |-> <<>>, code |-> <<>>, toc |-> <<>>]

RECURSIVE SumLen(_)
SumLen(seqs) == IF seqs = <<>> THEN 0 ELSE Len(Head(seqs)) + SumLen(Tail(seqs))

RECURSIVE CountOps(_)
CountOps(module) ==
    IF module = <<>> THEN 0 ELSE SumLen(Head(module)) + CountOps(Tail(module))

\* functions + blocks + operations
UnitSize(module) == Len(module) + SumLen(module) + CountOps(module)

Init ==
    /\ table \in EmbeddedTables
    /\ unit = <<>>
    /\ out_def = EmptyDef
    /\ last = NoCall
    /\ lookup = NoLookup

\* the compiler adds a function, a block, an operation to the inner module
AddFunc ==
    /\ UnitSize(unit) < MaxUnitSize
    /\ unit' = Append(unit, <<>>)
    /\ last' = NoCall
    /\ UNCHANGED <<table, out_def, lookup>>

AddBlock ==
    /\ UnitSize(unit) < MaxUnitSize
    /\ unit # <<>>
    /\ unit' = [unit EXCEPT ![Len(unit)] = Append(@, <<>>)]
    /\ last' = NoCall
    /\ UNCHANGED <<table, out_def, lookup>>

AddOp(op) ==
    /\ UnitSize(unit) < MaxUnitSize
    /\ unit # <<>>
    /\ unit[Len(unit)] # <<>>
    /\ unit' = [unit EXCEPT ![Len(unit)][Len(unit[Len(unit)])] = Append(@, op)]
    /\ last' = NoCall
    /\ UNCHANGED <<table, out_def, lookup>>

\* the caller goes on to the next executable
NewUnit ==
    /\ unit # <<>>
    /\ unit' = <<>>
    /\ last' = NoCall
    /\ UNCHANGED <<table, out_def, lookup>>

\* the caller constructs a new definition object
NewOutDef ==
    /\ out_def # EmptyDef
    /\ out_def' = EmptyDef
    /\ UNCHANGED <<table, unit, last, lookup>>

\* bool tryEmbeddedKernelRewrite(executableOp, out_def)
TryEmbeddedKernelRewrite ==
    LET r == tryEmbeddedKernelRewrite(unit, out_def, table)
    IN  /\ out_def' = r.out_def
        /\ last' = [valid |-> TRUE, pre |-> out_def, post |-> r.out_def,
                    ret |-> r.ret, emitted |-> r.emitted,
                    visited |-> r.visited, acted |-> r.acted,
                    repeat |-> last.valid,
                    prev_ret |-> IF last.valid THEN last.ret ELSE FALSE,
                    prev_post |-> IF last.valid THEN last.post ELSE EmptyDef]
        /\ UNCHANGED <<table, unit, lookup>>

Next ==
    \/ AddFunc
    \/ AddBlock
    \/ \E op \in Ops : AddOp(op)
    \/ NewUnit
    \/ NewOutDef
    \/ TryEmbeddedKernelRewrite

Spec == Init /\ [][Next]_vars

(***************************************************************************)
(* The lookup alone, against every table of up to MaxEntries entries.      *)
(***************************************************************************)
LookupNames == EntryNames \cup {<<>>}

InitLookup ==
    /\ table \in AllTables
    /\ unit = <<>>
    /\ out_def = EmptyDef
    /\ last = NoCall
    /\ lookup = NoLookup

\* std::vector<uint32_t> readEmbeddedKernelCode(kernelName)
ReadEmbeddedKernelCode(kernelName) ==
    /\ lookup' = [valid |-> TRUE, name |-> kernelName,
                  code |-> readEmbeddedKernelCode(kernelName, table),
                  toc |-> table]
    /\ UNCHANGED <<table, unit, out_def, last>>

NextLookup == \E kernelName \in LookupNames : ReadEmbeddedKernelCode(kernelName)

LookupSpec == InitLookup /\ [][NextLookup]_vars

(***************************************************************************)
(* Vocabulary of the properties: the places of a module in program order.  *)
(***************************************************************************)
Places(module) ==
    UNION {UNION {{<<f, b, o>> : o \in 1..Len(module[f][b])} :
                    b \in 1..Len(module[f])} :
             f \in 1..Len(module)}

OpAt(module, p) == module[p[1]][p[2]][p[3]]

\* p is at or before q in program order: functions, then blocks, then operations
AtOrBefore(p, q) ==
    \/ p[1] < q[1]
    \/ p[1] = q[1] /\ p[2] < q[2]
    \/ p[1] = q[1] /\ p[2] = q[2] /\ p[3] <= q[3]

Recognized(module) ==
    {p \in Places(module) : OpAt(module, p).kind \in {"xla_hlo.conv", "xla_hlo.dot"}}

FirstRecognized(module) ==
    CHOOSE p \in Recognized(module) : \A q \in Recognized(module) : AtOrBefore(p, q)

FirstKind(module) ==
    IF Recognized(module) = {} THEN "none"
    ELSE OpAt(module, FirstRecognized(module)).kind

\* the dot a call on the module hands to the assembler, when FirstKind is a dot
FirstDot(module) == OpAt(module, FirstRecognized(module))

IsStatic(type) == \A i \in 1..Len(type) : type[i] >= 0

\* the number a uint32_t holds
Uint32Value(w) == w.hi * 65536 + w.lo

SpecEntries(def) == def.specialization_info[1].map_entries

StorageBufferBinding(i) ==
    [binding |-> i, descriptor_count |-> 1, descriptor_type |-> 7, stage_flags |-> 32]

----
\* C1: the outcome of a call is decided by the first recognized operation in
\* program order alone: a convolution there gives the diagnostic and false
\* with out_def untouched, whatever follows; a dot there gives the assembler's
\* outcome; no operation after it is reached, and at most one operation is
\* acted on, that one.
C1_FirstRecognizedDecides ==
    last.valid =>
        /\ Len(last.acted) <= 1
        /\ Recognized(unit) = {} => last.acted = <<>>
        /\ Recognized(unit) # {} =>
            LET p == FirstRecognized(unit)
                built == buildMatMulExecutable(OpAt(unit, p), last.pre, table)
            IN  /\ last.acted = <<p>>
                /\ last.visited = Cardinality({q \in Places(unit) : AtOrBefore(q, p)})
                /\ FirstKind(unit) = "xla_hlo.conv" =>
                    /\ last.ret = FALSE
                    /\ last.emitted = <<"Conv not yet implemented">>
                    /\ last.post = last.pre
                /\ FirstKind(unit) = "xla_hlo.dot" =>
                    /\ last.ret = built.result
                    /\ last.post = built.out_def
                    /\ (last.emitted = <<>>) = built.result

\* a call whose first recognized operation is a convolution with a dot after it
C1_Witness ==
    /\ last.valid
    /\ FirstKind(unit) = "xla_hlo.conv"
    /\ \E q \in Recognized(unit) : OpAt(unit, q).kind = "xla_hlo.dot"
    /\ last.ret = FALSE

\* C2 as stated: a convolution anywhere in the unit gives a diagnostic, a
\* no-success result and an empty code field.
C2_AnyConvFails ==
    (last.valid /\ \E p \in Places(unit) : OpAt(unit, p).kind = "xla_hlo.conv") =>
        /\ last.ret = FALSE
        /\ last.emitted # <<>>
        /\ last.post.code = <<>>

\* C2 as amended: a unit whose first recognized operation is a convolution
\* gives the diagnostic and false, and out_def is left as it was on entry (its
\* code empty when the caller passed a new definition).
C2_FirstConvFails ==
    (last.valid /\ FirstKind(unit) = "xla_hlo.conv") =>
        /\ last.ret = FALSE
        /\ last.emitted = <<"Conv not yet implemented">>
        /\ last.post = last.pre
        /\ last.pre = EmptyDef => last.post.code = <<>>

\* a call on a unit with a leading convolution, with a new definition
C2_Witness ==
    /\ last.valid
    /\ FirstKind(unit) = "xla_hlo.conv"
    /\ last.pre = EmptyDef
    /\ last.emitted # <<>>

\* C3: a call that returns success leaves a fully populated definition: code
\* not empty, pipeline layout and specialization info present (so an empty
\* lookup of "matmul.spv" is a failure).
C3_SuccessIsFullyPopulated ==
    (last.valid /\ last.ret) =>
        /\ last.post.code # <<>>
        /\ last.post.pipeline_layout # <<>>
        /\ last.post.specialization_info # <<>>

\* C4: a matched dot with a dynamic dimension in an operand's shape makes the
\* call fail with a diagnostic.
C4_DynamicShapeFails ==
    (/\ last.valid
     /\ FirstKind(unit) = "xla_hlo.dot"
     /\ \E i \in 1..2 : ~IsStatic(FirstDot(unit).operands[i])) =>
        /\ last.ret = FALSE
        /\ last.emitted # <<>>

\* C5: for an unbatched dot of static shapes [m,k] x [k,n] the specialization
\* entries are exactly (100 -> m, 101 -> k, 102 -> n), the values the extents.
C5_UnbatchedEntries ==
    (/\ last.valid
     /\ FirstKind(unit) = "xla_hlo.dot"
     /\ \A i \in 1..2 : /\ Len(FirstDot(unit).operands[i]) = 2
                        /\ IsStatic(FirstDot(unit).operands[i])) =>
        LET arg0 == FirstDot(unit).operands[1]
            arg1 == FirstDot(unit).operands[2]
            e == SpecEntries(last.post)
        IN  /\ last.post.specialization_info # <<>>
            /\ Len(e) = 3
            /\ <<e[1].constant_id, e[2].constant_id, e[3].constant_id>> = <<100, 101, 102>>
            /\ Uint32Value(e[1].uint32_value) = arg0[1]
            /\ Uint32Value(e[2].uint32_value) = arg0[2]
            /\ Uint32Value(e[3].uint32_value) = arg1[2]

\* a successful call on an unbatched static dot whose m, k, n all differ
C5_Witness ==
    /\ last.valid
    /\ last.ret
    /\ FirstKind(unit) = "xla_hlo.dot"
    /\ FirstDot(unit).operands = <<<<2, 3>>, <<3, 5>>>>

\* C6: for a batched dot of static shapes [b,m,k] x [b,k,n], m and k are
\* operand 0's dimensions 1 and 2 and n is operand 1's dimension 2; exactly the
\* three entries M, K, N are emitted, and a batch extent that is none of
\* m, k, n is no entry's value.
C6_BatchedEntries ==
    (/\ last.valid
     /\ FirstKind(unit) = "xla_hlo.dot"
     /\ \A i \in 1..2 : /\ Len(FirstDot(unit).operands[i]) = 3
                        /\ IsStatic(FirstDot(unit).operands[i])) =>
        LET arg0 == FirstDot(unit).operands[1]
            arg1 == FirstDot(unit).operands[2]
            e == SpecEntries(last.post)
        IN  /\ last.post.specialization_info # <<>>
            /\ Len(e) = 3
            /\ <<e[1].constant_id, e[2].constant_id, e[3].constant_id>> = <<100, 101, 102>>
            /\ Uint32Value(e[1].uint32_value) = arg0[2]
            /\ Uint32Value(e[2].uint32_value) = arg0[3]
            /\ Uint32Value(e[3].uint32_value) = arg1[3]
            /\ arg0[1] \notin {arg0[2], arg0[3], arg1[3]} =>
                \A i \in 1..Len(e) : Uint32Value(e[i].uint32_value) # arg0[1]

\* a successful call on a batched static dot whose b, m, k, n all differ
C6_Witness ==
    /\ last.valid
    /\ last.ret
    /\ FirstKind(unit) = "xla_hlo.dot"
    /\ FirstDot(unit).operands = <<<<7, 2, 3>>, <<7, 3, 5>>>>

\* C7: a definition returned as success has buffer_binding_set 0 and one
\* descriptor-set layout of exactly the bindings 0, 1, 2 in that order, each
\* with count 1, type 7 and stage flags 0x20, whatever the shapes and rank.
C7_PipelineLayout ==
    (last.valid /\ last.ret) =>
        last.post.pipeline_layout =
            <<[buffer_binding_set |-> 0,
               descriptor_set_layouts |->
                 <<[bindings |-> <<StorageBufferBinding(0), StorageBufferBinding(1),
                                   StorageBufferBinding(2)>>]>>]>>

\* a successful call on a batched dot that reuses a populated definition
C7_Witness ==
    /\ last.valid
    /\ last.ret
    /\ Len(FirstDot(unit).operands[1]) = 3
    /\ last.pre.pipeline_layout # <<>>

\* C8: a unit with no dot and no convolution (an empty unit too) gives false,
\* no diagnostic, and out_def exactly as it was.
C8_NoMatchLeavesAll ==
    (last.valid /\ Recognized(unit) = {}) =>
        /\ last.ret = FALSE
        /\ last.emitted = <<>>
        /\ last.post = last.pre

\* a call on a unit of unrecognized operations only, with a populated definition
C8_Witness ==
    /\ last.valid
    /\ Recognized(unit) = {}
    /\ Places(unit) # {}
    /\ last.pre.code # <<>>
    /\ last.visited > 0

\* C9: a second call on the same unit against the same table gives the same
\* result flag and, on success, the same code, layout and specialization
\* entries; when it reuses the definition the first call left, the definition
\* is again exactly what the first call left (nothing is appended).
C9_Idempotent ==
    (last.valid /\ last.repeat) =>
        /\ last.ret = last.prev_ret
        /\ last.ret =>
            /\ last.post.code = last.prev_post.code
            /\ last.post.pipeline_layout = last.prev_post.pipeline_layout
            /\ last.post.specialization_info = last.prev_post.specialization_info
        /\ last.pre = last.prev_post => last.post = last.prev_post

\* a second successful call that reuses the definition the first populated
C9_Witness ==
    /\ last.valid
    /\ last.repeat
    /\ last.ret
    /\ last.pre = last.prev_post
    /\ last.pre.code # <<>>
    /\ last.pre.specialization_info # <<>>

\* C10: a lookup returns the size/4 words of the first entry whose name equals
\* the given name, the empty sequence when no entry has exactly that name, and
\* leaves the table as it was.
C10_Lookup ==
    lookup.valid =>
        LET matches == {i \in 1..Len(lookup.toc) : lookup.toc[i].name = lookup.name}
        IN  /\ table = lookup.toc
            /\ matches = {} => lookup.code = <<>>
            /\ matches # {} =>
                LET first == CHOOSE i \in matches : \A j \in matches : i <= j
                    entry == lookup.toc[first]
                IN  /\ Len(lookup.code) = entry.size \div 4
                    /\ \A w \in 1..Len(lookup.code) :
                        lookup.code[w] = SubSeq(entry.data, 4 * w - 3, 4 * w)

\* a lookup that finds two entries of the name and returns the first one's words
C10_Witness ==
    /\ lookup.valid
    /\ Len(table) = 2
    /\ table[1].name = lookup.name
    /\ table[2].name = lookup.name
    /\ table[1].data = Data8
    /\ table[2].data = Data4
    /\ Len(lookup.code) = 2

====
